---- MODULE Spec2Model ----
(***************************************************************************)
(* A model of datumaro/components/operations.py: the IntersectMerge        *)
(* merging strategy (category merge, item alignment, per-type matching of  *)
(* annotations into clusters, cluster merging, attribute voting, group     *)
(* renumbering, score filter) and the pairwise segment matcher.            *)
(*                                                                         *)
(* Numbers that are floats in the program (scores, distances, thresholds)  *)
(* are exact rationals <<num, den>> with den > 0; <<0, 0>> stands for "no  *)
(* value" (a missing dict key).  Annotations are identified by a handle    *)
(* <<source, item, position>>, which plays the part of Python's id().      *)
(***************************************************************************)
EXTENDS Integers, Sequences, FiniteSets, TLC

(***************************************************************************)
(* Bounds of the model.                                                    *)
(***************************************************************************)
MaxLabel == 1

(***************************************************************************)
(* Rationals.                                                              *)
(***************************************************************************)
RECURSIVE Gcd(_, _)
Gcd(a, b) == IF b = 0 THEN a ELSE Gcd(b, a % b)

Abs(n) == IF n < 0 THEN -n ELSE n

QNorm(q) ==
    IF q[1] = 0 THEN <<0, 1>>
    ELSE LET g == Gcd(Abs(q[1]), q[2]) IN <<q[1] \div g, q[2] \div g>>

QZero == <<0, 1>>
QHalf == <<1, 2>>
QOne == <<1, 1>>
NoValue == <<0, 0>>

QLt(a, b) == a[1] * b[2] < b[1] * a[2]
QLe(a, b) == a[1] * b[2] <= b[1] * a[2]
QAdd(a, b) == QNorm(<<a[1] * b[2] + b[1] * a[2], a[2] * b[2]>>)
QMul(a, b) == QNorm(<<a[1] * b[1], a[2] * b[2]>>)
QDivInt(a, n) == QNorm(<<a[1], a[2] * n>>)
QSub(a, b) == QNorm(<<a[1] * b[2] - b[1] * a[2], a[2] * b[2]>>)
QInt(n) == <<n, 1>>
QMax(a, b) == IF QLt(a, b) THEN b ELSE a

(***************************************************************************)
(* Sequences.                                                              *)
(***************************************************************************)
Range(s) == { s[i] : i \in DOMAIN s }

RECURSIVE Flatten(_)
Flatten(ss) == IF ss = <<>> THEN <<>> ELSE Head(ss) \o Flatten(Tail(ss))

RECURSIVE Perms(_)
Perms(S) ==
    IF S = {} THEN { <<>> }
    ELSE UNION { { <<x>> \o p : p \in Perms(S \ {x}) } : x \in S }

(***************************************************************************)
(* Python dicts are sequences of <<key, value>> pairs in insertion order.  *)
(***************************************************************************)
DictKeys(d) == { d[i][1] : i \in DOMAIN d }
DictHas(d, k) == \E i \in DOMAIN d : d[i][1] = k
DictGet(d, k, default) ==
    IF DictHas(d, k) THEN d[CHOOSE i \in DOMAIN d : d[i][1] = k][2] ELSE default
DictSet(d, k, v) ==
    IF DictHas(d, k)
    THEN [ i \in DOMAIN d |-> IF d[i][1] = k THEN <<k, v>> ELSE d[i] ]
    ELSE Append(d, <<k, v>>)


(***************************************************************************)
(* State.                                                                  *)
(*   ds        the source datasets: ds[s][it] is the annotation list of    *)
(*             item it in source s (each annotation a record)              *)
(*   present   present[s]: the items source s has                          *)
(*   ds0       the datasets as they were passed in                         *)
(*   cats      the category bundle of each source, per category kind       *)
(*   conf      IntersectMerge.Conf, plus the matcher's cluster_dist        *)
(*   pc        position in the program                                     *)
(*   categories, errors, merged    IntersectMerge._categories, .errors and *)
(*             the merged dataset under construction                       *)
(*   raised    the exception that left the call ("" when none)             *)
(*   queue, item     the items still to merge and the current one          *)
(*   byType, tIdx    all_by_type of _match_annotations and the type the    *)
(*             matching or merging loop is at                              *)
(*   srcs, order, pair, adjacent, visited, cluster, toVisit, clusters      *)
(*             the locals of _ShapeMatcher.match_annotations               *)
(*   typeClusters    the clusters dict of _match_annotations               *)
(*   lastMatch       what the last call of match_segments took and gave    *)
(*   groupMap, annotations    group_map and annotations of                 *)
(*             merge_annotations                                           *)
(*   stats, counts, result    the arguments of StatsCounter.compute_stats  *)
(*             (one channel: stats[i] = [mean, var]) and what it returned  *)
(***************************************************************************)
VARIABLES ds, present, ds0, cats, conf, pc, categories, errors, merged, raised,
          queue, item, byType, tIdx, srcs, order, pair, adjacent, visited,
          cluster, toVisit, clusters, typeClusters, lastMatch, groupMap,
          annotations, stats, counts, result

vars == <<ds, present, ds0, cats, conf, pc, categories, errors, merged, raised,
          queue, item, byType, tIdx, srcs, order, pair, adjacent, visited,
          cluster, toVisit, clusters, typeClusters, lastMatch, groupMap,
          annotations, stats, counts, result>>

statsVars == <<stats, counts, result>>

callVars == <<categories, errors, merged, raised, queue, item, byType, tIdx,
              typeClusters, groupMap, annotations>>

(***************************************************************************)
(* Annotations.  attrs is the attributes dict; box is the bounding box     *)
(* <<x, x + w>> of a Bbox(x, 0, w, 1) or of a Points annotation; ibox is   *)
(* the instance bounding box instance_map gives a Points annotation and    *)
(* pts its keypoints.                                                      *)
(***************************************************************************)
NoHandle == <<0, 0, 0>>

(* compute_stats has not returned *)
NoResult == [ count |-> 0, mean |-> NoValue, var |-> NoValue ]

AnnOf(st, h) == st[h[1]][h[2]][h[3]]

SourceOf(h) == h[1]

SourcesIn(members) == { SourceOf(h) : h \in Range(members) }

Score(a) == DictGet(a.attrs, "score", QOne)

(***************************************************************************)
(* Geometry kernels of datumaro.util.annotation_util.                      *)
(***************************************************************************)
Min(a, b) == IF a < b THEN a ELSE b
Max(a, b) == IF a < b THEN b ELSE a

BoxIoU(p, q) ==
    LET inter == Max(0, Min(p[2], q[2]) - Max(p[1], q[1]))
        union == (p[2] - p[1]) + (q[2] - q[1]) - inter
    IN  IF union = 0 THEN QZero ELSE QNorm(<<inter, union>>)

segment_iou(a, b) == BoxIoU(a.box, b.box)

bbox_iou(p, q) == BoxIoU(p, q)

OKS(a, b) ==
    LET diff == Abs(a.pts - b.pts)
    IN  IF diff = 0 THEN QOne ELSE IF diff = 1 THEN QHalf ELSE QZero

(***************************************************************************)
(* The distance of each matcher class.                                     *)
(***************************************************************************)
ShapeDistance(a, b) == segment_iou(a, b)

PointsDistance(a, b) ==
    IF QLe(bbox_iou(a.ibox, b.ibox), QZero) THEN QZero ELSE OKS(a, b)

LabelDistance(a, b) == IF a.label = b.label THEN QOne ELSE QZero

Distance(a, b) ==
    IF a.type = "points" THEN PointsDistance(a, b)
    ELSE IF a.type = "label" THEN LabelDistance(a, b)
    ELSE ShapeDistance(a, b)

(***************************************************************************)
(* match_segments: list.sort(key = 1 - score) is a stable sort by          *)
(* descending score.                                                       *)
(***************************************************************************)
RECURSIVE InsertByScore(_, _, _)
InsertByScore(st, h, sorted) ==
    IF sorted = <<>> THEN <<h>>
    ELSE IF QLt(Score(AnnOf(st, Head(sorted))), Score(AnnOf(st, h)))
         THEN <<h>> \o sorted
         ELSE <<Head(sorted)>> \o InsertByScore(st, h, Tail(sorted))

RECURSIVE SortByScore(_, _)
SortByScore(st, hs) ==
    IF hs = <<>> THEN <<>>
    ELSE InsertByScore(st, hs[Len(hs)], SortByScore(st, SubSeq(hs, 1, Len(hs) - 1)))

(* distances[a_idx, matched_b]: numpy reads index -1 as the last column *)
DistAt(st, A, B, a_idx, b_idx) ==
    Distance(AnnOf(st, A[a_idx]), AnnOf(st, B[IF b_idx < 0 THEN Len(B) + 1 + b_idx ELSE b_idx]))

(* the inner loop over b_segms; indices are 1-based, -1 is "no match" *)
RECURSIVE ScanB(_, _, _, _, _, _, _, _)
ScanB(st, A, B, a_idx, b_idx, b_matches, max_dist, matched_b) ==
    IF b_idx > Len(B) THEN matched_b
    ELSE IF 0 <= b_matches[b_idx]
         THEN ScanB(st, A, B, a_idx, b_idx + 1, b_matches, max_dist, matched_b)
         ELSE LET d == DistAt(st, A, B, a_idx, b_idx)
              IN  IF QLt(d, max_dist)
                  THEN ScanB(st, A, B, a_idx, b_idx + 1, b_matches, max_dist, matched_b)
                  ELSE ScanB(st, A, B, a_idx, b_idx + 1, b_matches, d, b_idx)

RECURSIVE MatchLoop(_, _, _, _, _, _, _, _)
MatchLoop(st, A, B, thresh, a_idx, acc, a_matches, b_matches) ==
    IF a_idx > Len(A) \/ Len(B) = 0
    THEN [ matches |-> acc.matches, mispred |-> acc.mispred,
           a_matches |-> a_matches, b_matches |-> b_matches ]
    ELSE LET max_dist == QMax(DistAt(st, A, B, a_idx, a_matches[a_idx]), thresh)
             matched_b == ScanB(st, A, B, a_idx, 1, b_matches, max_dist, a_matches[a_idx])
         IN  IF matched_b < 0
             THEN MatchLoop(st, A, B, thresh, a_idx + 1, acc, a_matches, b_matches)
             ELSE LET same == AnnOf(st, A[a_idx]).label = AnnOf(st, B[matched_b]).label
                      p == <<A[a_idx], B[matched_b]>>
                  IN  MatchLoop(st, A, B, thresh, a_idx + 1,
                        [ matches |-> IF same THEN Append(acc.matches, p) ELSE acc.matches,
                          mispred |-> IF same THEN acc.mispred ELSE Append(acc.mispred, p) ],
                        [ a_matches EXCEPT ![a_idx] = matched_b ],
                        [ b_matches EXCEPT ![matched_b] = a_idx ])

match_segments(st, a_segms, b_segms, dist_thresh) ==
    LET A == SortByScore(st, a_segms)
        B == SortByScore(st, b_segms)
        r == MatchLoop(st, A, B, dist_thresh, 1,
                       [ matches |-> <<>>, mispred |-> <<>> ],
                       [ i \in DOMAIN A |-> -1 ], [ i \in DOMAIN B |-> -1 ])
    IN  [ a_segms |-> A, b_segms |-> B, dist_thresh |-> dist_thresh,
          matches |-> r.matches, mispred |-> r.mispred,
          a_matches |-> r.a_matches, b_matches |-> r.b_matches ]

(***************************************************************************)
(* _ShapeMatcher.match_annotations, one step at a time.                    *)
(***************************************************************************)
matchVars == <<srcs, order, pair, adjacent, visited, cluster, toVisit, clusters,
               lastMatch>>

NoMatch == [ a_segms |-> <<>>, b_segms |-> <<>>, dist_thresh |-> QZero,
             matches |-> <<>>, mispred |-> <<>>,
             a_matches |-> <<>>, b_matches |-> <<>> ]

(* if cluster_dist < 0: cluster_dist = pairwise_dist *)
ClusterDist == IF QLt(conf.cluster_dist, QZero) THEN conf.pairwise_dist
               ELSE conf.cluster_dist

_is_close_enough(st, members, extra_id) ==
    \A a_id \in members :
        ~ QLt(Distance(AnnOf(st, a_id), AnnOf(st, extra_id)), ClusterDist)

_has_same_source(members, extra_id) ==
    \E a_id \in members : SourceOf(a_id) = SourceOf(extra_id)

(* the loops "for a_idx, src_a in enumerate(sources): for src_b in sources[a_idx+1:]" *)
FirstPair(n) == IF n >= 2 THEN <<1, 2>> ELSE <<0, 0>>

NextPair(p, n) ==
    IF p[2] < n THEN <<p[1], p[2] + 1>>
    ELSE IF p[1] + 2 <= n THEN <<p[1] + 1, p[1] + 2>>
    ELSE <<0, 0>>

RECURSIVE AddAdjacent(_, _)
AddAdjacent(adj, ms) ==
    IF ms = <<>> THEN adj
    ELSE AddAdjacent([ adj EXCEPT ![Head(ms)[1]] = Append(@, Head(ms)[2]) ], Tail(ms))

(* id_segm and the empty adjacency lists *)
MatchBegin ==
    /\ pc = "match_annotations"
    /\ order' = Flatten(srcs)
    /\ adjacent' = [ h \in Range(Flatten(srcs)) |-> <<>> ]
    /\ pair' = FirstPair(Len(srcs))
    /\ visited' = {}
    /\ cluster' = {}
    /\ toVisit' = {}
    /\ clusters' = <<>>
    /\ pc' = IF FirstPair(Len(srcs)) = <<0, 0>> THEN "cluster" ELSE "pairwise"
    /\ UNCHANGED <<statsVars, ds, present, ds0, cats, conf, srcs, lastMatch, callVars>>

(* one call of match_segments on a pair of sources: it sorts both lists in *)
(* place, and only its same-label matches become edges                     *)
MatchPair ==
    /\ pc = "pairwise"
    /\ LET m == match_segments(ds, srcs[pair[1]], srcs[pair[2]], conf.pairwise_dist)
           np == NextPair(pair, Len(srcs))
       IN  /\ srcs' = [ srcs EXCEPT ![pair[1]] = m.a_segms, ![pair[2]] = m.b_segms ]
           /\ adjacent' = AddAdjacent(adjacent, m.matches)
           /\ lastMatch' = m
           /\ pair' = np
           /\ pc' = IF np = <<0, 0>> THEN "cluster" ELSE "pairwise"
    /\ UNCHANGED <<statsVars, ds, present, ds0, cats, conf, order, visited, cluster, toVisit,
                   clusters, callVars>>

Unvisited == { i \in DOMAIN order : order[i] \notin visited }

(* "for cluster_idx in adjacent": the next key that is not visited *)
StartCluster ==
    /\ pc = "cluster"
    /\ Unvisited # {}
    /\ LET i == CHOOSE i \in Unvisited : \A j \in Unvisited : i <= j
       IN  toVisit' = { order[i] }
    /\ cluster' = {}
    /\ pc' = "visit"
    /\ UNCHANGED <<statsVars, ds, present, ds0, cats, conf, srcs, order, pair, adjacent,
                   visited, clusters, lastMatch, callVars>>

(* The candidates of a loop that does not skip the visited annotations *)
AdmittedRevisit(st, members, seen, c) ==
    { i \in Range(adjacent[c]) :
        /\ ~ (QLt(QZero, ClusterDist) /\ ~ _is_close_enough(st, members, i))
        /\ ~ _has_same_source(members, i) }

Admitted(st, members, seen, c) ==
    { i \in Range(adjacent[c]) :
        /\ i \notin seen
        /\ ~ (QLt(QZero, ClusterDist) /\ ~ _is_close_enough(st, members, i))
        /\ ~ _has_same_source(members, i) }

(* one turn of "while to_visit": set.pop() gives any element *)
Visit ==
    /\ pc = "visit"
    /\ toVisit # {}
    /\ \E c \in toVisit :
          /\ cluster' = cluster \cup {c}
          /\ visited' = visited \cup {c}
          /\ toVisit' = (toVisit \ {c})
                          \cup Admitted(ds, cluster \cup {c}, visited \cup {c}, c)
    /\ UNCHANGED <<statsVars, ds, present, ds0, cats, conf, pc, srcs, order, pair, adjacent,
                   clusters, lastMatch, callVars>>

(* clusters.append([... for i in cluster]): a set is listed in any order *)
CloseCluster ==
    /\ pc = "visit"
    /\ toVisit = {}
    /\ \E members \in Perms(cluster) : clusters' = Append(clusters, members)
    /\ pc' = "cluster"
    /\ UNCHANGED <<statsVars, ds, present, ds0, cats, conf, srcs, order, pair, adjacent,
                   visited, cluster, toVisit, lastMatch, callVars>>

(* return clusters: _match_annotations files them under the type *)
MatchReturn ==
    /\ pc = "cluster"
    /\ Unvisited = {}
    /\ typeClusters' = Append(typeClusters, clusters)
    /\ pc' = "matched"
    /\ UNCHANGED <<statsVars, ds, present, ds0, cats, conf, matchVars, categories, errors,
                   merged, raised, queue, item, byType, tIdx, groupMap,
                   annotations>>

(***************************************************************************)
(* The inputs of the matcher: per-source lists of one shape type.          *)
(***************************************************************************)
Items == { 1, 2 }

Labels == 0 .. MaxLabel

MkAnn(t, l, g, z, at, b, ib, p) ==
    [ type |-> t, label |-> l, group |-> g, z_order |-> z, attrs |-> at,
      box |-> b, ibox |-> ib, pts |-> p ]

ScoreChoices == { <<>>, << <<"score", QHalf>> >> }

BboxAnns ==
    { MkAnn("bbox", l, 0, 0, sc, b, b, 0) :
        l \in Labels, sc \in ScoreChoices, b \in { <<0, 2>>, <<0, 4>> } }

PointsAnns ==
    { MkAnn("points", 0, 0, 0, <<>>, b, b, p) :
        b \in { <<0, 2>>, <<4, 6>> }, p \in { 0, 1, 2 } }

MatchSizes == { <<1, 1, 2>>, <<2, 2>> }

PairwiseDists == { <<-1, 1>>, QZero, QHalf, QOne }

Slots(sizes) == { <<s, i>> \in (DOMAIN sizes) \X (1 .. 2) : i <= sizes[s] }

DatasetsOf(sizes, f) ==
    [ s \in DOMAIN sizes |->
        [ it \in Items |-> IF it = 1 THEN [ i \in 1 .. sizes[s] |-> f[<<s, i>>] ]
                           ELSE <<>> ] ]

HandlesOf(d, s, it) == [ i \in DOMAIN d[s][it] |-> <<s, it, i>> ]

DefaultConf ==
    [ pairwise_dist |-> QHalf, cluster_dist |-> <<-1, 1>>,
      output_conf_thresh |-> QZero, quorum |-> 0, ignored_attributes |-> {},
      close_distance |-> <<3, 4>>, groups |-> <<>> ]

InitMatch ==
    /\ \E anns \in { BboxAnns, PointsAnns } : \E sizes \in MatchSizes :
       \E f \in [ Slots(sizes) -> anns ] :
          /\ ds = DatasetsOf(sizes, f)
          /\ ds0 = DatasetsOf(sizes, f)
          /\ present = [ s \in DOMAIN sizes |-> { 1 } ]
          /\ cats = [ s \in DOMAIN sizes |-> << <<"label", 1>> >> ]
          /\ srcs = [ s \in DOMAIN sizes |-> HandlesOf(DatasetsOf(sizes, f), s, 1) ]
    /\ \E pd \in PairwiseDists : conf = [ DefaultConf EXCEPT !.pairwise_dist = pd ]
    /\ pc = "match_annotations"
    /\ categories = <<>>
    /\ errors = <<>>
    /\ merged = <<>>
    /\ raised = ""
    /\ queue = <<>>
    /\ item = 1
    /\ byType = <<>>
    /\ tIdx = 0
    /\ typeClusters = <<>>
    /\ order = <<>>
    /\ pair = <<0, 0>>
    /\ adjacent = <<>>
    /\ visited = {}
    /\ cluster = {}
    /\ toVisit = {}
    /\ clusters = <<>>
    /\ lastMatch = NoMatch
    /\ groupMap = <<>>
    /\ annotations = <<>>
    /\ stats = <<>>
    /\ counts = <<>>
    /\ result = NoResult

NextMatch ==
    \/ MatchBegin
    \/ MatchPair
    \/ StartCluster
    \/ Visit
    \/ CloseCluster
    \/ MatchReturn

SpecMatch == InitMatch /\ [][NextMatch]_vars

(* For the termination of the cluster loop: the inputs of InitMatch that   *)
(* have no 'score' and a pairwise_dist of 0 or 0.5.  The interpreter runs  *)
(* the loop on while a statement of it is left to run.                     *)
InitMatchLive ==
    /\ InitMatch
    /\ conf.pairwise_dist \in { QZero, QHalf }
    /\ \A s \in DOMAIN ds : \A i \in DOMAIN ds[s][1] : ds[s][1][i].attrs = <<>>

SpecMatchLive ==
    /\ InitMatchLive
    /\ [][NextMatch]_vars
    /\ WF_vars(StartCluster)
    /\ WF_vars(Visit)
    /\ WF_vars(CloseCluster)
    /\ WF_vars(MatchReturn)

(***************************************************************************)
(* Claims about _ShapeMatcher.match_annotations (SpecMatch).               *)
(***************************************************************************)
(* C1: every cluster match_annotations returns holds at most one           *)
(* annotation of each source: the number of distinct sources among its     *)
(* members equals its size.                                                *)
C1_DisjointSources ==
    \A k \in DOMAIN clusters :
        Cardinality(SourcesIn(clusters[k])) = Len(clusters[k])

InstancesOverlap(a, b) == QLt(QZero, bbox_iou(a.ibox, b.ibox))

(* C7: whatever pairwise_dist is, two Points annotations of different      *)
(* sources whose instance bounding boxes do not overlap are never members  *)
(* of one cluster.                                                         *)
C7_NoOverlapNoCluster ==
    \A k \in DOMAIN clusters : \A i, j \in DOMAIN clusters[k] :
        LET a == AnnOf(ds, clusters[k][i])
            b == AnnOf(ds, clusters[k][j])
        IN  (/\ i # j
             /\ a.type = "points"
             /\ b.type = "points"
             /\ SourceOf(clusters[k][i]) # SourceOf(clusters[k][j]))
            => InstancesOverlap(a, b)

(***************************************************************************)
(* merge_categories.  IntersectMerge.__call__ passes it a generator, which *)
(* can be iterated once: a generator is the list of what it yields and the *)
(* position it has reached.                                                *)
(***************************************************************************)
Generator(yields) == [ yields |-> yields, pos |-> 0 ]

(* what a "for" over the generator gets, and the generator afterwards *)
GenRest(g) == SubSeq(g.yields, g.pos + 1, Len(g.yields))
GenDone(g) == [ g EXCEPT !.pos = Len(g.yields) ]

RECURSIVE DictUpdate(_, _)
DictUpdate(d, e) ==
    IF e = <<>> THEN d
    ELSE DictUpdate(DictSet(d, Head(e)[1], Head(e)[2]), Tail(e))

RECURSIVE UpdateAll(_, _)
UpdateAll(d, sources) ==
    IF sources = <<>> THEN d
    ELSE UpdateAll(DictUpdate(d, Head(sources)), Tail(sources))

merge_categories(sources) ==
    LET firstLoop == GenRest(sources)
        union == UpdateAll(<<>>, firstLoop)
        secondLoop == GenRest(GenDone(sources))
        differ == \E i \in DOMAIN secondLoop : \E k \in DictKeys(secondLoop[i]) :
                      DictGet(union, k, <<>>) # DictGet(secondLoop[i], k, <<>>)
    IN  [ raises |-> differ, categories |-> union ]

(***************************************************************************)
(* IntersectMerge: items, types, cluster groups, checks.                   *)
(***************************************************************************)
NumSources == Len(ds)

RECURSIVE SortedSeq(_)
SortedSeq(S) ==
    IF S = {} THEN <<>>
    ELSE LET m == CHOOSE x \in S : \A y \in S : x <= y
         IN  <<m>> \o SortedSeq(S \ {m})

(* match_items: the item ids of all datasets, sorted *)
match_items == SortedSeq(UNION { present[s] : s \in DOMAIN present })

_check_groups_definition(merged_categories) ==
    \A i \in DOMAIN conf.groups : \A l \in conf.groups[i] :
        l[1] \in Range(DictGet(merged_categories, "label", <<>>))

RECURSIVE Dedup(_)
Dedup(s) ==
    IF s = <<>> THEN <<>>
    ELSE LET r == Dedup(SubSeq(s, 1, Len(s) - 1))
         IN  IF s[Len(s)] \in Range(r) THEN r ELSE Append(r, s[Len(s)])

(* merge_items: the annotation lists of the sources that have the item *)
ItemSources(it) == SelectSeq(SortedSeq(DOMAIN ds), LAMBDA s : it \in present[s])

OfType(st, hs, t) == SelectSeq(hs, LAMBDA h : AnnOf(st, h).type = t)

(* _match_annotations: all_by_type, in the order the types first appear *)
AllByType(st, it) ==
    LET lists == [ k \in DOMAIN ItemSources(it) |-> HandlesOf(st, ItemSources(it)[k], it) ]
        types == Dedup([ k \in DOMAIN Flatten(lists) |-> AnnOf(st, Flatten(lists)[k]).type ])
    IN  [ k \in DOMAIN types |->
            [ type |-> types[k],
              sources |-> SelectSeq([ j \in DOMAIN lists |-> OfType(st, lists[j], types[k]) ],
                                    LAMBDA l : l # <<>>) ] ]

GroupsOf(st, members) == { AnnOf(st, h).group : h \in Range(members) }

(* the first loop of _find_cluster_groups over clusters[a_idx+1:] *)
RECURSIVE GatherGroups(_, _, _, _)
GatherGroups(st, cs, b_idx, a_groups) ==
    IF b_idx > Len(cs) THEN a_groups
    ELSE GatherGroups(st, cs, b_idx + 1,
            IF a_groups \cap GroupsOf(st, cs[b_idx]) # {}
            THEN a_groups \cup GroupsOf(st, cs[b_idx]) ELSE a_groups)

(* cluster_groups: a list of [clusters, groups], clusters named by their   *)
(* index in the joined list                                                *)
RECURSIVE FindGroupsFrom(_, _, _, _, _)
FindGroupsFrom(st, cs, a_idx, seen, cluster_groups) ==
    IF a_idx > Len(cs) THEN cluster_groups
    ELSE IF a_idx \in seen THEN FindGroupsFrom(st, cs, a_idx + 1, seen, cluster_groups)
    ELSE LET a_groups == GatherGroups(st, cs, a_idx + 1, GroupsOf(st, cs[a_idx]))
             adj == { b_idx \in (a_idx + 1) .. Len(cs) :
                        a_groups \cap GroupsOf(st, cs[b_idx]) # {} }
         IN  FindGroupsFrom(st, cs, a_idx + 1, seen \cup {a_idx} \cup adj,
                IF a_groups = {0} THEN cluster_groups
                ELSE Append(cluster_groups,
                            [ clusters |-> {a_idx} \cup adj, groups |-> a_groups ]))

_find_cluster_groups(st, cs) == FindGroupsFrom(st, cs, 1, {}, <<>>)

(* find(enumerate(group_map), ...): the first group that has the cluster *)
NewGroupId(group_map, c) ==
    LET hits == { g \in DOMAIN group_map : c \in group_map[g].clusters }
    IN  IF hits = {} THEN 0 ELSE CHOOSE g \in hits : \A g2 \in hits : g <= g2

(* Errors: one record shape for every error class *)
Error(kind, it, sources, attr, ann, other) ==
    [ kind |-> kind, item_id |-> it, sources |-> sources, attr |-> attr,
      ann |-> ann, other |-> other ]

_has_item(st, s, it) == it \in present[s] /\ Len(st[s][it]) # 0

MissingSources(st, members, it) ==
    { s \in DOMAIN st : s \notin SourcesIn(members) /\ _has_item(st, s, it) }

(* _check_cluster_sources: the errors it adds *)
_check_cluster_sources(st, members, it) ==
    IF Len(members) = Len(st) THEN <<>>
    ELSE IF MissingSources(st, members, it) # {}
         THEN << Error("NoMatchingAnnError", it, MissingSources(st, members, it),
                       "", members[1], NoHandle) >>
         ELSE <<>>

(***************************************************************************)
(* The mergers.  A merged annotation is [h, ann]: ann is the annotation    *)
(* and h the handle of the source annotation it is (the representative     *)
(* shape of a cluster is a member of the cluster, not a copy), or NoHandle *)
(* for a Label made by the LabelMerger.                                    *)
(***************************************************************************)
TypeErrorNotIterable == "TypeError: 'Label' object is not iterable"
TypeErrorMissingVotes == "TypeError: __init__() missing 1 required positional argument: 'votes'"

(* votes[label] = 1 + votes.get(label, 0), over the cluster in order *)
RECURSIVE CountVotes(_, _, _)
CountVotes(st, members, votes) ==
    IF members = <<>> THEN votes
    ELSE LET l == AnnOf(st, Head(members)).label
         IN  CountVotes(st, Tail(members), DictSet(votes, l, 1 + DictGet(votes, l, 0)))

(* max(..., key = ...) gives the first of the entries with the largest key *)
FirstMaxIndex(keys) ==
    CHOOSE i \in DOMAIN keys :
        /\ \A j \in DOMAIN keys : ~ QLt(keys[i], keys[j])
        /\ \A j \in 1 .. (i - 1) : QLt(keys[j], keys[i])

(* LabelMerger.merge_clusters: the condition of the generator that is to   *)
(* name the sources iterates over a Label annotation, so the first label   *)
(* under the quorum ends the call with a TypeError                         *)
LabelMergeClusters(st, cs) ==
    IF cs = <<>> THEN [ raises |-> "", st |-> st, merged |-> <<>> ]
    ELSE LET votes == CountVotes(st, cs[1], <<>>)
         IN  IF \E i \in DOMAIN votes : votes[i][2] < conf.quorum
             THEN [ raises |-> TypeErrorNotIterable, st |-> st, merged |-> <<>> ]
             ELSE [ raises |-> "", st |-> st,
                    merged |-> [ i \in DOMAIN votes |->
                        [ h |-> NoHandle,
                          ann |-> MkAnn("label", votes[i][1], 0, 0,
                                     << <<"score", QNorm(<<votes[i][2], Len(st)>>)>> >>,
                                     <<0, 0>>, <<0, 0>>, 0) ] ] ]

(* find_cluster_label: votes[label] = [sum of scores, count] *)
RECURSIVE ScoreVotes(_, _, _)
ScoreVotes(st, members, votes) ==
    IF members = <<>> THEN votes
    ELSE LET a == AnnOf(st, Head(members))
             state == DictGet(votes, a.label, <<QZero, 0>>)
         IN  ScoreVotes(st, Tail(members),
                DictSet(votes, a.label, <<QAdd(state[1], Score(a)), state[2] + 1>>))

LabelVote(win) ==
    [ label |-> win[1], score |-> QDivInt(win[2][1], win[2][2]),
      raises |-> IF win[2][2] < conf.quorum THEN TypeErrorMissingVotes ELSE "" ]

WinningVote(votes) == votes[FirstMaxIndex([ i \in DOMAIN votes |-> votes[i][2][1] ])]

find_cluster_label(st, members) == LabelVote(WinningVote(ScoreVotes(st, members, <<>>)))

RECURSIVE SumInt(_, _)
SumInt(f, S) ==
    IF S = {} THEN 0
    ELSE LET x == CHOOSE x \in S : TRUE IN f[x] + SumInt(f, S \ {x})

(* mean_bbox of the cluster, scaled by the cluster's size *)
ScaledMeanBox(st, members) ==
    << SumInt([ i \in DOMAIN members |-> AnnOf(st, members[i]).box[1] ], DOMAIN members),
       SumInt([ i \in DOMAIN members |-> AnnOf(st, members[i]).box[2] ], DOMAIN members) >>

ScaledBox(b, n) == << b[1] * n, b[2] * n >>

_merge_cluster_shape_mean_box_nearest(st, members) ==
    members[FirstMaxIndex([ i \in DOMAIN members |->
                BoxIoU(ScaledMeanBox(st, members),
                       ScaledBox(AnnOf(st, members[i]).box, Len(members))) ])]

RECURSIVE SumQ(_, _)
SumQ(f, S) ==
    IF S = {} THEN QZero
    ELSE LET x == CHOOSE x \in S : TRUE IN QAdd(f[x], SumQ(f, S \ {x}))

ShapeScore(st, members, shape) ==
    QDivInt(SumQ([ i \in DOMAIN members |->
                     QMax(QZero, Distance(AnnOf(st, shape), AnnOf(st, members[i]))) ],
                 DOMAIN members),
            Len(members))

ShapeAndScore(st, members, shape) ==
    [ shape |-> shape, score |-> ShapeScore(st, members, shape) ]

merge_cluster_shape(st, members) ==
    ShapeAndScore(st, members, _merge_cluster_shape_mean_box_nearest(st, members))

MaxZOrder(st, members) ==
    LET zs == { AnnOf(st, h).z_order : h \in Range(members) }
    IN  CHOOSE z \in zs : \A y \in zs : y <= z

SetAnn(st, h, a) == [ st EXCEPT ![h[1]][h[2]][h[3]] = a ]

(* _ShapeMerger.merge_clusters: the chosen member itself gets the merged   *)
(* z_order, label and score                                                *)
MergedShape(st, members, lab, shp) ==
    [ AnnOf(st, shp.shape) EXCEPT
        !.z_order = MaxZOrder(st, members),
        !.label = lab.label,
        !.attrs = DictSet(@, "score", QMul(lab.score, shp.score)) ]

AddMerged(acc, h, new) ==
    [ raises |-> "", st |-> SetAnn(acc.st, h, new),
      merged |-> Append(acc.merged, [ h |-> h, ann |-> new ]) ]

MergeCluster(acc, members, lab, shp) ==
    IF lab.raises # "" THEN [ acc EXCEPT !.raises = lab.raises ]
    ELSE AddMerged(acc, shp.shape, MergedShape(acc.st, members, lab, shp))

RECURSIVE ShapeMergeFrom(_, _, _)
ShapeMergeFrom(cs, k, acc) ==
    IF k > Len(cs) \/ acc.raises # "" THEN acc
    ELSE ShapeMergeFrom(cs, k + 1,
            MergeCluster(acc, cs[k], find_cluster_label(acc.st, cs[k]),
                         merge_cluster_shape(acc.st, cs[k])))

ShapeMergeClusters(st, cs) ==
    ShapeMergeFrom(cs, 1, [ raises |-> "", st |-> st, merged |-> <<>> ])

_merge_clusters(st, t, cs) ==
    IF t = "label" THEN LabelMergeClusters(st, cs) ELSE ShapeMergeClusters(st, cs)

(***************************************************************************)
(* _find_cluster_attrs.                                                    *)
(***************************************************************************)
RECURSIVE TallyAttrs(_, _)
TallyAttrs(pairs, attr_votes) ==
    IF pairs = <<>> THEN attr_votes
    ELSE LET name == Head(pairs)[1]
             value == Head(pairs)[2]
             votes == DictGet(attr_votes, name, <<>>)
         IN  TallyAttrs(Tail(pairs),
                DictSet(attr_votes, name,
                        DictSet(votes, value, 1 + DictGet(votes, value, 0))))

AttrVotes(st, members) ==
    TallyAttrs(Flatten([ i \in DOMAIN members |-> AnnOf(st, members[i]).attrs ]), <<>>)

TotalVotes(votes) == SumInt([ i \in DOMAIN votes |-> votes[i][2] ], DOMAIN votes)

(* the sources a failed vote blames: both branches test the attribute of   *)
(* s, the last member the voting loop left behind, for every member a      *)
BlamedSources(st, members, name, votes, winner) ==
    LET s == AnnOf(st, members[Len(members)])
        same == DictGet(s.attrs, name, NoValue) = winner
    IN  IF TotalVotes(votes) < conf.quorum
        THEN (IF same THEN SourcesIn(members) ELSE {})
        ELSE (IF ~ same THEN SourcesIn(members) ELSE {})

AttrWinner(votes) == votes[FirstMaxIndex([ i \in DOMAIN votes |-> <<votes[i][2], 1>> ])]

VoteAttr(st, members, it, ann, name, votes, win, acc) ==
    IF win[2] < conf.quorum
    THEN [ acc EXCEPT !.errors = Append(@,
             Error("FailedAttrVotingError", it,
                   BlamedSources(st, members, name, votes, win[1]),
                   name, ann, NoHandle)) ]
    ELSE [ acc EXCEPT !.attributes = DictSet(@, name, win[1]) ]

RECURSIVE VoteAttrs(_, _, _, _, _, _)
VoteAttrs(st, members, it, ann, attr_votes, acc) ==
    IF attr_votes = <<>> THEN acc
    ELSE VoteAttrs(st, members, it, ann, Tail(attr_votes),
            VoteAttr(st, members, it, ann, Head(attr_votes)[1], Head(attr_votes)[2],
                     AttrWinner(Head(attr_votes)[2]), acc))

_find_cluster_attrs(st, members, it, ann) ==
    VoteAttrs(st, members, it, ann, AttrVotes(st, members),
              [ attributes |-> <<>>, errors |-> <<>> ])

(***************************************************************************)
(* merge_annotations, the body of "for t, clusters in clusters.items()".   *)
(***************************************************************************)
NotIgnored(attributes) ==
    SelectSeq(attributes, LAMBDA e : e[1] \notin conf.ignored_attributes)

(* one turn of "for merged_ann, cluster in zip(merged_clusters, clusters)" *)
Regrouped(m, voted, new_group_id) ==
    [ m.ann EXCEPT
        !.attrs = DictUpdate(NotIgnored(voted.attributes), m.ann.attrs),
        !.group = new_group_id ]

ZipPut(acc, i, h, new, errs) ==
    [ st |-> IF h = NoHandle THEN acc.st ELSE SetAnn(acc.st, h, new),
      merged |-> [ acc.merged EXCEPT ![i] = [ h |-> h, ann |-> new ] ],
      errors |-> acc.errors \o errs ]

ZipStep(acc, i, m, voted, new_group_id) ==
    ZipPut(acc, i, m.h, Regrouped(m, voted, new_group_id), voted.errors)

(* offset is the number of clusters of the types before this one in the    *)
(* joined list                                                             *)
RECURSIVE ZipFrom(_, _, _, _, _, _)
ZipFrom(cs, offset, group_map, it, i, acc) ==
    IF i > Len(cs) \/ i > Len(acc.merged) THEN acc
    ELSE ZipFrom(cs, offset, group_map, it, i + 1,
            ZipStep(acc, i, acc.merged[i],
                    _find_cluster_attrs(acc.st, cs[i], it, acc.merged[i].h),
                    NewGroupId(group_map, offset + i)))

RECURSIVE ClusterSourceErrors(_, _, _, _)
ClusterSourceErrors(st, cs, it, k) ==
    IF k > Len(cs) THEN <<>>
    ELSE _check_cluster_sources(st, cs[k], it) \o ClusterSourceErrors(st, cs, it, k + 1)

(* _check_annotation_distance *)
RECURSIVE TooCloseFrom(_, _, _, _)
TooCloseFrom(ms, it, a_idx, b_idx) ==
    IF a_idx > Len(ms) THEN <<>>
    ELSE IF b_idx > Len(ms) THEN TooCloseFrom(ms, it, a_idx + 1, a_idx + 2)
    ELSE (IF QLt(conf.close_distance, Distance(ms[a_idx].ann, ms[b_idx].ann))
          THEN << Error("TooCloseError", it, {}, "", ms[a_idx].h, ms[b_idx].h) >>
          ELSE <<>>) \o TooCloseFrom(ms, it, a_idx, b_idx + 1)

_check_annotation_distance(ms, it) ==
    IF conf.close_distance = QZero THEN <<>> ELSE TooCloseFrom(ms, it, 1, 2)

RECURSIVE TotalLen(_, _)
TotalLen(ss, k) == IF k = 0 THEN 0 ELSE Len(ss[k]) + TotalLen(ss, k - 1)

(* one type: [raises, st, merged, errors] *)
Zipped(mc, cs, offset, group_map, it) ==
    ZipFrom(cs, offset, group_map, it, 1,
            [ st |-> mc.st, merged |-> mc.merged, errors |-> <<>> ])

TypeDone(z, srcErrors, it) ==
    [ raises |-> "", st |-> z.st, merged |-> z.merged,
      errors |-> srcErrors \o z.errors \o _check_annotation_distance(z.merged, it) ]

TypeMerged(mc, srcErrors, cs, offset, group_map, it) ==
    IF mc.raises # ""
    THEN [ raises |-> mc.raises, st |-> mc.st, merged |-> <<>>, errors |-> srcErrors ]
    ELSE TypeDone(Zipped(mc, cs, offset, group_map, it), srcErrors, it)

MergeOneType(st, t, cs, offset, group_map, it) ==
    TypeMerged(_merge_clusters(st, t, cs), ClusterSourceErrors(st, cs, it, 1),
               cs, offset, group_map, it)

(***************************************************************************)
(* IntersectMerge.__call__, one step at a time.                            *)
(***************************************************************************)
(* merge_categories, _check_groups_definition, match_items *)
CallStart ==
    /\ pc = "call"
    /\ LET mc == merge_categories(Generator(cats))
       IN  /\ categories' = mc.categories
           /\ IF mc.raises
              THEN /\ raised' = "NotImplementedError"
                   /\ pc' = "raised"
                   /\ queue' = queue
              ELSE IF ~ _check_groups_definition(mc.categories)
              THEN /\ raised' = "ValueError"
                   /\ pc' = "raised"
                   /\ queue' = queue
              ELSE /\ raised' = raised
                   /\ pc' = "items"
                   /\ queue' = match_items
    /\ UNCHANGED <<statsVars, ds, present, ds0, cats, conf, errors, merged, item, byType, tIdx,
                   typeClusters, groupMap, annotations, matchVars>>

(* the head of the loop over item_matches, and merge_items up to the       *)
(* per-type lists of _match_annotations                                    *)
BeginItem ==
    /\ pc = "items"
    /\ queue # <<>>
    /\ item' = Head(queue)
    /\ queue' = Tail(queue)
    /\ errors' = IF Len(ItemSources(Head(queue))) < NumSources
                 THEN Append(errors,
                        Error("NoMatchingItemError", Head(queue),
                              { s \in DOMAIN ds : Head(queue) \notin present[s] },
                              "", NoHandle, NoHandle))
                 ELSE errors
    /\ byType' = AllByType(ds, Head(queue))
    /\ tIdx' = 0
    /\ typeClusters' = <<>>
    /\ groupMap' = <<>>
    /\ annotations' = <<>>
    /\ pc' = "matched"
    /\ UNCHANGED <<statsVars, ds, present, ds0, cats, conf, categories, merged, raised, matchVars>>

(* _match_ann_type for the next type: the LabelMatcher returns the one     *)
(* flattened cluster, a shape matcher starts match_annotations             *)
MatchType ==
    /\ pc = "matched"
    /\ tIdx < Len(byType)
    /\ tIdx' = tIdx + 1
    /\ IF byType[tIdx + 1].type = "label"
       THEN /\ typeClusters' = Append(typeClusters, << Flatten(byType[tIdx + 1].sources) >>)
            /\ srcs' = srcs
            /\ pc' = "matched"
       ELSE /\ typeClusters' = typeClusters
            /\ srcs' = byType[tIdx + 1].sources
            /\ pc' = "match_annotations"
    /\ UNCHANGED <<statsVars, ds, present, ds0, cats, conf, categories, errors, merged, raised,
                   queue, item, byType, groupMap, annotations, order, pair, adjacent,
                   visited, cluster, toVisit, clusters, lastMatch>>

(* joined_clusters and group_map *)
JoinClusters ==
    /\ pc = "matched"
    /\ tIdx = Len(byType)
    /\ groupMap' = _find_cluster_groups(ds, Flatten(typeClusters))
    /\ tIdx' = 0
    /\ annotations' = <<>>
    /\ pc' = "merge"
    /\ UNCHANGED <<statsVars, ds, present, ds0, cats, conf, categories, errors, merged, raised,
                   queue, item, byType, typeClusters, matchVars>>

TypeResult(r) ==
    /\ ds' = r.st
    /\ errors' = errors \o r.errors
    /\ annotations' = annotations \o r.merged
    /\ raised' = r.raises
    /\ pc' = IF r.raises # "" THEN "raised" ELSE "merge"

(* the checks and the merge of one type's clusters *)
MergeType ==
    /\ pc = "merge"
    /\ tIdx < Len(byType)
    /\ TypeResult(MergeOneType(ds, byType[tIdx + 1].type, typeClusters[tIdx + 1],
                                TotalLen(typeClusters, tIdx), groupMap, item))
    /\ tIdx' = tIdx + 1
    /\ UNCHANGED <<statsVars, present, ds0, cats, conf, categories, merged, queue, item, byType,
                   typeClusters, groupMap, matchVars>>

(***************************************************************************)
(* _check_groups.  conf.groups holds what Conf's converter leaves: a list  *)
(* of specs, each a set of <<label name, optional>>.  An annotation of the *)
(* merged list is named by its position in it.                             *)
(***************************************************************************)
_get_label_name(label_id) == DictGet(categories, "label", <<>>)[label_id + 1]

PositionsInGroup(anns, g) ==
    SelectSeq([ i \in DOMAIN anns |-> i ], LAMBDA i : anns[i].ann.group = g)

Singletons(s) == [ k \in DOMAIN s |-> << s[k] >> ]

(* find_instances of datumaro.util.annotation_util: the annotations sorted *)
(* by group; each annotation of group 0 alone, each other group together   *)
find_instances(anns) ==
    Singletons(PositionsInGroup(anns, 0))
        \o [ k \in DOMAIN SortedSeq({ anns[i].ann.group : i \in DOMAIN anns } \ {0}) |->
               PositionsInGroup(anns,
                   SortedSeq({ anns[i].ann.group : i \in DOMAIN anns } \ {0})[k]) ]

check_groups ==
    [ k \in DOMAIN conf.groups |->
        [ check_group |-> { l[1] : l \in conf.groups[k] },
          optional |-> { l[1] : l \in { m \in conf.groups[k] : m[2] } } ] ]

(* the test of one spec: common and (extra or real_miss) *)
Offends(check, group_labels) ==
    /\ check.check_group \cap group_labels # {}
    /\ \/ group_labels \ check.check_group # {}
       \/ (check.check_group \ group_labels) \ check.optional # {}

(* the loop over check_groups from spec k on: it breaks after an error,    *)
(* and only then                                                           *)
RECURSIVE _check_group(_, _, _, _)
_check_group(k, group_labels, group, it) ==
    IF k > Len(check_groups) THEN <<>>
    ELSE IF Offends(check_groups[k], group_labels)
         THEN << Error("WrongGroupError", it, {}, "", NoHandle,
                       << group_labels, check_groups[k].check_group, group >>) >>
         ELSE _check_group(k + 1, group_labels, group, it)

(* "for ann in group": an annotation of group 0 is checked on its own *)
RECURSIVE UngroupedErrors(_, _, _, _)
UngroupedErrors(anns, group, n, it) ==
    IF n > Len(group) THEN <<>>
    ELSE (IF anns[group[n]].ann.group = 0
          THEN _check_group(1, { _get_label_name(anns[group[n]].ann.label) },
                            << group[n] >>, it)
          ELSE <<>>)
         \o UngroupedErrors(anns, group, n + 1, it)

GroupLabels(anns, group) ==
    { _get_label_name(anns[i].ann.label) :
        i \in { j \in Range(group) : anns[j].ann.group # 0 } }

CheckInstance(anns, group, it) ==
    UngroupedErrors(anns, group, 1, it)
        \o (IF GroupLabels(anns, group) = {} THEN <<>>
            ELSE _check_group(1, GroupLabels(anns, group), group, it))

_check_groups(anns, it) ==
    Flatten([ g \in DOMAIN find_instances(anns) |->
                CheckInstance(anns, find_instances(anns)[g], it) ])

PassesThreshold(m) == QLe(conf.output_conf_thresh, Score(m.ann))

(* the end of merge_annotations ("if self.conf.groups: _check_groups"),     *)
(* then the score filter of merge_items, and merged.put                    *)
FinishItem ==
    /\ pc = "merge"
    /\ tIdx = Len(byType)
    /\ errors' = IF conf.groups # <<>>
                 THEN errors \o _check_groups(annotations, item)
                 ELSE errors
    /\ merged' = Append(merged,
          [ id |-> item, annotations |-> SelectSeq(annotations, PassesThreshold) ])
    /\ pc' = "items"
    /\ UNCHANGED <<statsVars, ds, present, ds0, cats, conf, categories, raised, queue,
                   item, byType, tIdx, typeClusters, groupMap, annotations, matchVars>>

Return ==
    /\ pc = "items"
    /\ queue = <<>>
    /\ pc' = "done"
    /\ UNCHANGED <<statsVars, ds, present, ds0, cats, conf, categories, errors, merged, raised,
                   queue, item, byType, tIdx, typeClusters, groupMap, annotations,
                   matchVars>>

(***************************************************************************)
(* The inputs of a merge: two sources.  Item 1 is in both, with a list of  *)
(* up to two of the annotations below; item 2 is in neither, in the first  *)
(* or in both, with one Label.                                             *)
(***************************************************************************)
Label0 == MkAnn("label", 0, 0, 0, <<>>, <<0, 0>>, <<0, 0>>, 0)
Label1 == MkAnn("label", 1, 1, 0, <<>>, <<0, 0>>, <<0, 0>>, 0)
BboxA == MkAnn("bbox", 0, 1, 0, << <<"score", QHalf>>, <<"x", QOne>> >>,
               <<0, 2>>, <<0, 2>>, 0)
BboxB == MkAnn("bbox", 1, 2, 1, <<>>, <<0, 2>>, <<0, 2>>, 0)
BboxC == MkAnn("bbox", 0, 0, 0, << <<"x", <<2, 1>>>> >>, <<0, 4>>, <<0, 4>>, 0)

Fixtures == { Label0, Label1, BboxA, BboxB, BboxC }

ItemLists == { <<>> } \cup { <<a>> : a \in Fixtures }
                \cup { <<a, b>> : a \in Fixtures, b \in Fixtures }

Item2Sources == { {}, {1}, {1, 2} }

CatsA == << <<"label", <<"a", "b">>>> >>
CatsB == << <<"label", <<"a", "c">>>> >>

(* groups = [["a", "b?"], ["a", "b"]] after Conf's converter *)
GroupSpecs ==
    << { <<"a", FALSE>>, <<"b", TRUE>> }, { <<"a", FALSE>>, <<"b", FALSE>> } >>

Confs ==
    { DefaultConf,
      [ DefaultConf EXCEPT !.quorum = 2 ],
      [ DefaultConf EXCEPT !.output_conf_thresh = <<3, 4>> ],
      [ DefaultConf EXCEPT !.ignored_attributes = {"x"} ],
      [ DefaultConf EXCEPT !.quorum = 2, !.ignored_attributes = {"x"} ],
      [ DefaultConf EXCEPT !.groups = GroupSpecs ] }

Datasets(l1, l2, with2) ==
    [ s \in 1 .. 2 |->
        [ it \in Items |-> IF it = 1 THEN (IF s = 1 THEN l1 ELSE l2)
                           ELSE IF s \in with2 THEN << Label0 >> ELSE <<>> ] ]

Init ==
    /\ \E l1 \in ItemLists : \E l2 \in ItemLists : \E with2 \in Item2Sources :
          /\ ds = Datasets(l1, l2, with2)
          /\ ds0 = Datasets(l1, l2, with2)
          /\ present = [ s \in 1 .. 2 |-> {1} \cup (IF s \in with2 THEN {2} ELSE {}) ]
    /\ conf \in Confs
    /\ cats \in { <<CatsA, CatsA>>, <<CatsA, CatsB>> }
    /\ pc = "call"
    /\ categories = <<>>
    /\ errors = <<>>
    /\ merged = <<>>
    /\ raised = ""
    /\ queue = <<>>
    /\ item = 1
    /\ byType = <<>>
    /\ tIdx = 0
    /\ typeClusters = <<>>
    /\ groupMap = <<>>
    /\ annotations = <<>>
    /\ srcs = <<>>
    /\ order = <<>>
    /\ pair = <<0, 0>>
    /\ adjacent = <<>>
    /\ visited = {}
    /\ cluster = {}
    /\ toVisit = {}
    /\ clusters = <<>>
    /\ lastMatch = NoMatch
    /\ stats = <<>>
    /\ counts = <<>>
    /\ result = NoResult

Next ==
    \/ CallStart
    \/ BeginItem
    \/ MatchType
    \/ MatchBegin
    \/ MatchPair
    \/ StartCluster
    \/ Visit
    \/ CloseCluster
    \/ MatchReturn
    \/ JoinClusters
    \/ MergeType
    \/ FinishItem
    \/ Return

Spec == Init /\ [][Next]_vars

(***************************************************************************)
(* Claims about IntersectMerge.__call__ (Spec).                            *)
(***************************************************************************)

(* C2: a merge leaves every source annotation as it was: label, z_order,   *)
(* group and attributes of each input annotation, and the order of each    *)
(* item's annotation list, are after the call what they were before it.    *)
C2_InputsUnchanged == ds = ds0

CategoriesDiffer ==
    \E s, t \in DOMAIN cats : \E k \in DictKeys(cats[s]) \cap DictKeys(cats[t]) :
        DictGet(cats[s], k, <<>>) # DictGet(cats[t], k, <<>>)

(* C3: when two sources carry category bundles that differ for some kind,  *)
(* the call fails with "merging different categories is not implemented"   *)
(* and gives no merged dataset.                                            *)
C3_DifferentCategoriesFail ==
    (CategoriesDiffer /\ pc # "call")
        => (pc = "raised" /\ raised = "NotImplementedError" /\ merged = <<>>)

MergedAnns(k) == { merged[k].annotations[i].ann : i \in DOMAIN merged[k].annotations }

(* C4: every annotation of every merged item has a score in [0, 1].        *)
C4_ScoresInUnitInterval ==
    \A k \in DOMAIN merged : \A a \in MergedAnns(k) :
        QLe(QZero, Score(a)) /\ QLe(Score(a), QOne)

(* C5: in every merged item the non-zero group values are exactly 1 .. k   *)
(* for some k >= 0.                                                        *)
C5_GroupsDense ==
    \A k \in DOMAIN merged :
        LET gs == { a.group : a \in MergedAnns(k) } \ {0}
        IN  gs = 1 .. Cardinality(gs)

LabelHandles(it) ==
    { h \in Range(Flatten([ s \in DOMAIN ds0 |-> HandlesOf(ds0, s, it) ])) :
        AnnOf(ds0, h).type = "label" }

LabelCount(it, l) == Cardinality({ h \in LabelHandles(it) : AnnOf(ds0, h).label = l })

FailingLabels(it) ==
    { l \in Labels : LabelCount(it, l) > 0 /\ LabelCount(it, l) < conf.quorum }

TypeIndex(t) == { k \in DOMAIN byType : byType[k].type = t }

(* the merge of the item's labels has been run *)
LabelsMerged(it) ==
    \/ \E k \in DOMAIN merged : merged[k].id = it
    \/ /\ it = item
       /\ pc \in { "merge", "raised" }
       /\ \E k \in TypeIndex("label") : k <= tIdx

ErrorsOf(kind, it) == { i \in DOMAIN errors : errors[i].kind = kind /\ errors[i].item_id = it }

(* C6: a label of an item whose vote count is under the quorum gives one   *)
(* FailedLabelVotingError, is left out of the merged annotations, and the  *)
(* merge goes on normally.                                                 *)
C6_LabelQuorumReported ==
    \A it \in Items :
        (LabelsMerged(it) /\ FailingLabels(it) # {})
            => /\ raised = ""
               /\ Cardinality(ErrorsOf("FailedLabelVotingError", it))
                    = Cardinality(FailingLabels(it))
               /\ \A i \in DOMAIN annotations :
                     (it = item /\ annotations[i].ann.type = "label")
                        => annotations[i].ann.label \notin FailingLabels(it)

Payload(a) == << a.type, a.box, a.label >>

CountIn(anns, key) == Cardinality({ i \in DOMAIN anns : Payload(anns[i]) = key })

SameAnnotations(xs, ys) ==
    \A key \in { Payload(xs[i]) : i \in DOMAIN xs } \cup { Payload(ys[i]) : i \in DOMAIN ys } :
        CountIn(xs, key) = CountIn(ys, key)

IdenticalSources ==
    /\ ds0[1] = ds0[2]
    /\ present[1] = present[2]
    /\ conf.quorum = 0
    /\ conf.output_conf_thresh = QZero

(* C8: merging [D, D'] with D' an equal copy of D, quorum = 0 and          *)
(* output_conf_thresh = 0, gives for every item one merged annotation per  *)
(* annotation of D, with the same type, shape and label.                   *)
C8_IdenticalSourcesIdempotent ==
    (IdenticalSources /\ pc = "done")
        => \A k \in DOMAIN merged :
              SameAnnotations([ i \in DOMAIN merged[k].annotations |->
                                    merged[k].annotations[i].ann ],
                              ds0[1][merged[k].id])

CheckedClusters ==
    IF pc = "merge"
    THEN UNION { Range(typeClusters[k]) : k \in 1 .. tIdx }
    ELSE {}

(* C9: for every cluster, if the set S of the sources that have the item   *)
(* with at least one annotation and give the cluster no member is not      *)
(* empty, exactly one NoMatchingAnnError names S with the first member of  *)
(* the cluster.                                                            *)
C9_MissingSourcesReported ==
    \A members \in CheckedClusters :
        MissingSources(ds, members, item) # {}
            => /\ Cardinality({ i \in ErrorsOf("NoMatchingAnnError", item) :
                                  errors[i].ann = members[1] }) = 1
               /\ \A i \in ErrorsOf("NoMatchingAnnError", item) :
                     errors[i].ann = members[1]
                        => errors[i].sources = MissingSources(ds, members, item)

(* C10: for a name in ignored_attributes no FailedAttrVotingError is       *)
(* recorded, and no annotation of a merged item has the attribute.         *)
C10_IgnoredAttributesDropped ==
    /\ \A i \in DOMAIN errors :
          errors[i].kind = "FailedAttrVotingError"
              => errors[i].attr \notin conf.ignored_attributes
    /\ \A k \in DOMAIN merged : \A a \in MergedAnns(k) :
          DictKeys(a.attrs) \cap conf.ignored_attributes = {}

(***************************************************************************)
(* Claims about match_segments, on the last call match_annotations made    *)
(* (SpecMatch).                                                            *)
(***************************************************************************)
MatchDist(m, a_idx, b_idx) ==
    Distance(AnnOf(ds, m.a_segms[a_idx]), AnnOf(ds, m.b_segms[b_idx]))

(* the b that no earlier a had claimed when a_idx was processed *)
FreeFor(m, a_idx) ==
    { b \in DOMAIN m.b_segms : m.b_matches[b] < 0 \/ m.b_matches[b] >= a_idx }

(* the free b at a distance >= dist_thresh *)
AdmissibleFor(m, a_idx) ==
    { b \in FreeFor(m, a_idx) : QLe(m.dist_thresh, MatchDist(m, a_idx, b)) }

(* those of them at the greatest distance *)
BestFor(m, a_idx) ==
    { b \in AdmissibleFor(m, a_idx) :
        \A c \in AdmissibleFor(m, a_idx) :
            QLe(MatchDist(m, a_idx, c), MatchDist(m, a_idx, b)) }

(* C11: when a has the same maximal admissible distance to several         *)
(* unclaimed b, a is matched to the one with the lowest index in the       *)
(* sorted b list.                                                          *)
C11_TieLowestIndex ==
    \A a \in DOMAIN lastMatch.a_segms :
        Cardinality(BestFor(lastMatch, a)) > 1
            => \A b \in BestFor(lastMatch, a) : lastMatch.a_matches[a] <= b

(* C12: whenever some unclaimed b has d(a, b) >= dist_thresh, a is         *)
(* matched, and to an unclaimed b of maximal distance; the distance of a   *)
(* to a claimed b does not prevent it.                                     *)
C12_BestFreeMatched ==
    \A a \in DOMAIN lastMatch.a_segms :
        AdmissibleFor(lastMatch, a) # {}
            => lastMatch.a_matches[a] \in BestFor(lastMatch, a)

(* the pairs match_segments paired: same label or not *)
PairedBy(m) == Range(m.matches) \cup Range(m.mispred)

(* C14: two annotations which match_segments pairs at a distance           *)
(* >= pairwise_dist are joined by an adjacency edge, whether or not their  *)
(* labels are equal.                                                       *)
C14_PairedAreAdjacent ==
    \A p \in PairedBy(lastMatch) : p[2] \in Range(adjacent[p[1]])

(***************************************************************************)
(* Claims about the group numbering of merge_annotations (Spec).           *)
(***************************************************************************)
(* the joined cluster list group_map was computed from, while it is in use *)
JoinedClusters == IF pc = "merge" THEN Flatten(typeClusters) ELSE <<>>

(* the member group ids of a cluster, as they were when the call began *)
MemberGroups(c) == GroupsOf(ds0, c)

ShareNonZeroGroup(c, d) == (MemberGroups(c) \cap MemberGroups(d)) \ {0} # {}

(* a chain of at most k links from cluster i to cluster j *)
RECURSIVE Chained(_, _, _, _)
Chained(cs, i, j, k) ==
    \/ i = j
    \/ /\ k > 0
       /\ \E m \in DOMAIN cs :
             m # i /\ ShareNonZeroGroup(cs[i], cs[m]) /\ Chained(cs, m, j, k - 1)

(* C13: two clusters of an item get the same non-zero new group number     *)
(* exactly when a chain of clusters joins them in which each cluster       *)
(* shares a non-zero member group id with the next; group id 0 links       *)
(* nothing.  (The right-hand side does not depend on the order of the      *)
(* list, so neither may the numbering's "same group" relation.)            *)
C13_GroupsFollowChains ==
    \A i, j \in DOMAIN JoinedClusters :
        i # j =>
            ((/\ NewGroupId(groupMap, i) # 0
              /\ NewGroupId(groupMap, i) = NewGroupId(groupMap, j))
             <=> Chained(JoinedClusters, i, j, Len(JoinedClusters) - 1))

(***************************************************************************)
(* Claims about the clusters of match_annotations (SpecMatch).             *)
(***************************************************************************)
(* C15: with an effective cluster_dist > 0, every two members a, b of a    *)
(* returned cluster have d(a, b) >= cluster_dist.                          *)
C15_ClusterCohesion ==
    QLt(QZero, ClusterDist) =>
        \A k \in DOMAIN clusters : \A g, h \in Range(clusters[k]) :
            QLe(ClusterDist, Distance(AnnOf(ds, g), AnnOf(ds, h)))

(***************************************************************************)
(* Claims about _check_groups (Spec).                                      *)
(***************************************************************************)
(* the groups _check_groups has checked for the item just merged: each     *)
(* with the label names it was checked with                                *)
CheckedGroups ==
    IF pc \in { "items", "done" } /\ conf.groups # <<>>
    THEN Range(find_instances(annotations))
    ELSE {}

CheckedLabels(group) ==
    { _get_label_name(annotations[i].ann.label) : i \in Range(group) }

WrongGroupErrors(group) ==
    { i \in ErrorsOf("WrongGroupError", item) : errors[i].other[3] = group }

(* the configured specs whose label set intersects the labels *)
MatchingSpecs(labels) ==
    { k \in DOMAIN check_groups : check_groups[k].check_group \cap labels # {} }

FirstMatchingSpec(labels) ==
    CHOOSE k \in MatchingSpecs(labels) : \A m \in MatchingSpecs(labels) : k <= m

(* C16: for each group of a merged item only the first configured spec     *)
(* whose labels intersect the group's is evaluated: a group which          *)
(* satisfies that spec gets no WrongGroupError, whatever later specs say,  *)
(* and no group gets more than one.                                        *)
C16_FirstMatchingSpecOnly ==
    \A group \in CheckedGroups :
        /\ Cardinality(WrongGroupErrors(group)) <= 1
        /\ (/\ MatchingSpecs(CheckedLabels(group)) # {}
            /\ ~ Offends(check_groups[FirstMatchingSpec(CheckedLabels(group))],
                         CheckedLabels(group)))
              => WrongGroupErrors(group) = {}

(***************************************************************************)
(* StatsCounter.  One channel of the per-image statistics: numpy applies   *)
(* every operation of pairwise_stats to the channels one by one.           *)
(***************************************************************************)
Stat(count, mean, var) == [ count |-> count, mean |-> mean, var |-> var ]

(* M2 = m_a + m_b + delta ** 2 * count_a * count_b / (count_a + count_b) *)
M2(delta, count_a, m_a, count_b, m_b) ==
    QAdd(QAdd(m_a, m_b),
         QDivInt(QMul(QMul(QMul(delta, delta), QInt(count_a)), QInt(count_b)),
                 count_a + count_b))

pairwise_stats(a, b) ==
    Stat(a.count + b.count,
         QAdd(QMul(a.mean, QHalf), QMul(b.mean, QHalf)),
         QDivInt(M2(QSub(b.mean, a.mean),
                    a.count, QMul(a.var, QInt(a.count - 1)),
                    b.count, QMul(b.var, QInt(b.count - 1))),
                 a.count + b.count - 1))

RECURSIVE compute_stats(_, _)
compute_stats(st, cn) ==
    IF Len(st) = 1 THEN Stat(cn[1], st[1].mean, st[1].var)
    ELSE IF Len(st) = 2
    THEN pairwise_stats(Stat(cn[1], st[1].mean, st[1].var),
                        Stat(cn[2], st[2].mean, st[2].var))
    ELSE pairwise_stats(
            compute_stats(SubSeq(st, 1, Len(st) \div 2), SubSeq(cn, 1, Len(st) \div 2)),
            compute_stats(SubSeq(st, Len(st) \div 2 + 1, Len(st)),
                          SubSeq(cn, Len(st) \div 2 + 1, Len(st))))

(* the call made by mean_std for a dataset that is not empty *)
ComputeStats ==
    /\ pc = "compute_stats"
    /\ result' = compute_stats(stats, counts)
    /\ pc' = "stats_done"
    /\ UNCHANGED <<stats, counts, ds, present, ds0, cats, conf, callVars, matchVars>>

(* Inputs: up to MaxImages images of 2 or 3 pixels, with a mean and an     *)
(* unbiased variance each.                                                 *)
MaxImages == 4

ImageCounts == { 2, 3 }

ImageStats == { [ mean |-> m, var |-> v ] : m \in { QZero, QHalf, QOne },
                                            v \in { QZero, <<1, 4>> } }

InitStats ==
    /\ \E n \in 1 .. MaxImages :
          /\ stats \in [ 1 .. n -> ImageStats ]
          /\ counts \in [ 1 .. n -> ImageCounts ]
    /\ result = NoResult
    /\ pc = "compute_stats"
    /\ ds = <<>>
    /\ ds0 = <<>>
    /\ present = <<>>
    /\ cats = <<>>
    /\ conf = DefaultConf
    /\ categories = <<>>
    /\ errors = <<>>
    /\ merged = <<>>
    /\ raised = ""
    /\ queue = <<>>
    /\ item = 1
    /\ byType = <<>>
    /\ tIdx = 0
    /\ typeClusters = <<>>
    /\ groupMap = <<>>
    /\ annotations = <<>>
    /\ srcs = <<>>
    /\ order = <<>>
    /\ pair = <<0, 0>>
    /\ adjacent = <<>>
    /\ visited = {}
    /\ cluster = {}
    /\ toVisit = {}
    /\ clusters = <<>>
    /\ lastMatch = NoMatch

NextStats == ComputeStats

SpecStats == InitStats /\ [][NextStats]_vars

(***************************************************************************)
(* Claims about StatsCounter.compute_stats (SpecStats).                    *)
(***************************************************************************)
RECURSIVE TotalCount(_)
TotalCount(cn) == IF cn = <<>> THEN 0 ELSE Head(cn) + TotalCount(Tail(cn))

(* the sum of n_i * mean_i *)
RECURSIVE WeightedSum(_, _)
WeightedSum(st, cn) ==
    IF st = <<>> THEN QZero
    ELSE QAdd(QMul(QInt(Head(cn)), Head(st).mean), WeightedSum(Tail(st), Tail(cn)))

(* C17: compute_stats returns the total count, the sum of the n_i, and the *)
(* count-weighted mean (sum of n_i * mean_i) / (sum of n_i).               *)
C17_WeightedMean ==
    pc = "stats_done"
        => /\ result.count = TotalCount(counts)
           /\ result.mean = QDivInt(WeightedSum(stats, counts), TotalCount(counts))

(***************************************************************************)
(* Claims about what match_annotations returns (SpecMatchLive).            *)
(***************************************************************************)
Returned == pc = "matched"

(* where a handle is found in the returned clusters *)
PlacesOf(h) ==
    { p \in UNION { { <<k, i>> : i \in DOMAIN clusters[k] } : k \in DOMAIN clusters } :
        clusters[p[1]][p[2]] = h }

(* an annotation no call of match_segments gave a matched pair *)
Unpaired(h) ==
    /\ adjacent[h] = <<>>
    /\ \A g \in DOMAIN adjacent : h \notin Range(adjacent[g])

ClustersPartitionInput ==
    Returned =>
        /\ \A h \in Range(Flatten(srcs)) : Cardinality(PlacesOf(h)) = 1
        /\ \A k \in DOMAIN clusters : Range(clusters[k]) \subseteq Range(Flatten(srcs))
        /\ \A h \in Range(Flatten(srcs)) :
              Unpaired(h) => \E k \in DOMAIN clusters : clusters[k] = << h >>

(* C18: the clusters match_annotations returns partition its input: every  *)
(* annotation of every source list is in exactly one cluster, once; an     *)
(* annotation with no matched pair is a cluster of its own; and once the   *)
(* pairwise matching is done, the cluster loop ends and the function       *)
(* returns, for every input.                                               *)
C18_PartitionAndTermination ==
    /\ []ClustersPartitionInput
    /\ (pc = "cluster") ~> Returned

(* a returned result with a joined cluster and an unpaired annotation *)
C18_Witness ==
    /\ Returned
    /\ \E k \in DOMAIN clusters : Len(clusters[k]) >= 2
    /\ \E h \in Range(Flatten(srcs)) : Unpaired(h)

====
